---- MODULE Spec2Model ----
(***************************************************************************)
(* State-machine model of ConfluenceSnapshot (src/confluence-snapshot.py): *)
(* the recursive export of a Confluence space to a directory tree.         *)
(*                                                                         *)
(* A path is a sequence of components, the download root being <<>>.  A    *)
(* component is a pair <<stem, ext>>: the document of a page with          *)
(* sanitized title T is <<T, ".pdf">>, its attachments directory           *)
(* <<T, ".attachments">>, its subdirectory <<T, "">>.  Titles are          *)
(* sequences of one-character strings, so that re.sub acts on characters.  *)
(***************************************************************************)
EXTENDS Integers, Sequences, FiniteSets, TLC

VARIABLES
    space,          \* the remote page tree: parent, title and attachments of each page
    config,         \* config['with_attachments'], config['lazy_mode']
    dirs,           \* directories under download_path (set of paths)
    files,          \* regular files under download_path: path -> content
    clock,          \* source of st_ctime values
    stack,          \* activation records of _download_page_tree
    att,            \* locals of _download_attachments
    pc,             \* position of the process in the code
    driver,         \* the webdriver.Chrome session: "none" or "open"
    page_counter,   \* self.page_counter
    run,            \* download_space_pages calls started so far
    log,            \* what the current run did, in order
    prev,           \* how the previous run ended
    dirs0,          \* dirs when the current run started
    files0,         \* files when the current run started
    sanIn,          \* a raw title handed to re.sub
    sanOut          \* what re.sub returned for it

vars == <<space, config, dirs, files, clock, stack, att, pc, driver,
          page_counter, run, log, prev, dirs0, files0, sanIn, sanOut>>

walkVars == <<space, config, dirs, files, clock, stack, att, pc, driver,
              page_counter, run, log, prev, dirs0, files0>>

-----------------------------------------------------------------------------
(* Bounds *)

MaxPages == 3
MaxRuns == 2
MaxTitleLen == 2

-----------------------------------------------------------------------------
(* Title sanitization: re.sub(r'[^\w_. -]', '_', title)                    *)

\* Characters \w matches in a Python 3 str pattern: letters and digits of any
\* script and the underscore.  AsciiWord are of [A-Za-z0-9_]; UnicodeWord are
\* letters outside ASCII, written in ASCII here: "e'" is U+00E9 (e acute),
\* "u:" is U+00FC (u umlaut).  Other are characters \w does not match, "(c)"
\* being U+00A9 (the copyright sign).
AsciiWord == {"a", "Z", "7", "_", "p", "d", "f"}
UnicodeWord == {"e'", "u:"}
Punct == {".", " ", "-"}
Other == {":", "/", "!", "(c)"}
Alphabet == AsciiWord \cup UnicodeWord \cup Punct \cup Other

WordChar(c) == c \in AsciiWord \cup UnicodeWord

\* The character class [^\w_. -]
BadChar(c) == ~(WordChar(c) \/ c = "_" \/ c = "." \/ c = " " \/ c = "-")

\* re.sub with the pattern compiled under re.ASCII: \w is [A-Za-z0-9_] only
SanitizeAscii(title) ==
    [i \in 1..Len(title) |->
        IF title[i] \in AsciiWord \cup Punct THEN title[i] ELSE "_"]

Sanitize(title) == [i \in 1..Len(title) |-> IF BadChar(title[i]) THEN "_" ELSE title[i]]

RECURSIVE Str(_)
Str(s) == IF s = <<>> THEN "" ELSE Head(s) \o Str(Tail(s))

-----------------------------------------------------------------------------
(* The remote space *)

HomeId == 0
Pages == 1..MaxPages

\* What a page can be: its raw title, over Alphabet, and the titles of its
\* attachments.  The second and third titles differ only in a character that
\* re.sub replaces.
PageKinds ==
    { [title |-> <<"Z">>,      attachments |-> <<>>],
      [title |-> <<"a", ":">>, attachments |-> <<"x", "y">>],
      [title |-> <<"a", "!">>, attachments |-> <<"x">>],
      [title |-> <<"e'">>,     attachments |-> <<>>] }

\* Every tree over Pages rooted at the home page (a parent has a smaller id).
\* Confluence keeps page titles unique within a space.
Spaces ==
    { [parent |-> par, page |-> kind] :
        par \in { f \in [Pages -> {HomeId} \cup Pages] : \A p \in Pages : f[p] < p },
        kind \in { k \in [Pages -> PageKinds] :
                     \A p, q \in Pages : p # q => k[p].title # k[q].title } }

Configs == [with_attachments : BOOLEAN, lazy_mode : BOOLEAN]

RECURSIVE Ordered(_)
Ordered(S) ==
    IF S = {} THEN <<>>
    ELSE LET m == CHOOSE x \in S : \A y \in S : x <= y
         IN  <<m>> \o Ordered(S \ {m})

\* api.get_child_pages(parent_id): the children, in listing order, as they
\* come from the API (raw titles).
get_child_pages(parent_id) ==
    LET ids == Ordered({ p \in Pages : space.parent[p] = parent_id })
    IN  [i \in 1..Len(ids) |-> [id |-> ids[i], title |-> space.page[ids[i]].title]]

\* api.get_attachments_from_content(page_id)['results']
get_attachments(page_id) == space.page[page_id].attachments

-----------------------------------------------------------------------------
(* pathlib *)

\* Path.joinpath(name) for a name without separators
JoinPath(path, name) == Append(path, name)

\* Path.parent
Parent(path) == IF path = <<>> THEN <<>> ELSE SubSeq(path, 1, Len(path) - 1)

\* the characters of the suffix glob('*.pdf') matches
PdfSuffix == <<".", "p", "d", "f">>

\* The names the code builds from a (sanitized) title.  A name is kept as
\* <<stem, ".pdf">> whenever it ends in ".pdf", so that equal names are equal
\* components: the directory of a page titled "Z.pdf" is the path of the
\* document of a page titled "Z".
DirName(title) ==
    IF Len(title) >= 4 /\ SubSeq(title, Len(title) - 3, Len(title)) = PdfSuffix
    THEN <<Str(SubSeq(title, 1, Len(title) - 4)), ".pdf">>
    ELSE <<Str(title), "">>
PdfName(title) == <<Str(title), ".pdf">>
AttachmentsName(title) == <<Str(title), ".attachments">>
FileName(filename) == <<filename, "">>

\* the name Chrome gives the document it prints for a page; n > 0 when a file
\* of that name is already there and Chrome numbers the new one
BrowserName(page_id, n) == <<"~" \o ToString(page_id) \o "~" \o ToString(n), ".pdf">>

Exists(path) == path \in dirs \/ path \in DOMAIN files
IsFile(path) == path \in DOMAIN files

\* download_path.glob('*.pdf')
GlobPdf(download_path) ==
    { f \in (DOMAIN files) \cup dirs :
        /\ f # <<>>
        /\ Parent(f) = download_path
        /\ f[Len(f)][2] = ".pdf" }

NoAtt == [dir |-> <<>>, list |-> <<>>, idx |-> 0]
NoPrev == [outcome |-> "none", failed |-> FALSE]

Event(op, page, path) == [op |-> op, page |-> page, path |-> path]

-----------------------------------------------------------------------------
(* Initial states *)

InitWalk ==
    /\ space \in Spaces
    /\ config \in Configs
    /\ dirs = {<<>>}
    /\ files = <<>>
    /\ clock = 0
    /\ stack = <<>>
    /\ att = NoAtt
    /\ pc = "idle"
    /\ driver = "none"
    /\ page_counter = 1
    /\ run = 0
    /\ log = <<>>
    /\ prev = NoPrev
    /\ dirs0 = {<<>>}
    /\ files0 = <<>>

NoNames == [done |-> FALSE, title |-> <<>>, document |-> <<"", "">>,
            attachments |-> <<"", "">>, directory |-> <<"", "">>]

Init ==
    /\ InitWalk
    /\ sanIn = <<>>
    /\ sanOut = NoNames

-----------------------------------------------------------------------------
(* download_space_pages and _download_page_tree *)

Top == stack[Len(stack)]
SetTop(frame) == [stack EXCEPT ![Len(stack)] = frame]

Frame(parent_id, download_path) ==
    [parent_id |-> parent_id, download_path |-> download_path,
     children |-> <<>>, idx |-> 0,
     child |-> [id |-> HomeId, title |-> <<>>], new_download_path |-> <<>>]

Logged(op, page, path) == log' = Append(log, Event(op, page, path))

\* where the loop body goes after _download_page returned
AfterDownloadPage ==
    IF config.lazy_mode THEN "lazy_page"
    ELSE IF config.with_attachments THEN "attachments"
    ELSE "children"

\* The process is started: download_space_pages is called and sets the counter.
StartRun ==
    /\ pc \in {"idle", "done", "aborted", "crashed"}
    /\ run < MaxRuns
    /\ run' = run + 1
    /\ page_counter' = 1
    /\ pc' = "get_space"
    /\ log' = <<>>
    /\ prev' = [outcome |-> pc,
                failed |-> \E i \in 1..Len(log) : log[i].op = "request_failed"]
    /\ dirs0' = dirs
    /\ files0' = files
    /\ stack' = <<>>
    /\ att' = NoAtt
    /\ UNCHANGED <<space, config, dirs, files, clock, driver, sanIn, sanOut>>

\* api.get_space(...)['homepage']['id'], then the call of _download_page_tree
GetSpace ==
    /\ pc = "get_space"
    /\ stack' = <<Frame(HomeId, <<>>)>>
    /\ pc' = "list"
    /\ Logged("get_space", HomeId, <<>>)
    /\ UNCHANGED <<space, config, dirs, files, clock, att, driver, page_counter,
                   run, prev, dirs0, files0, sanIn, sanOut>>

\* list(self.api.get_child_pages(parent_id)) at the head of the for loop
ListChildren ==
    /\ pc = "list"
    /\ stack' = SetTop([Top EXCEPT !.children = get_child_pages(Top.parent_id), !.idx = 1])
    /\ pc' = "loop"
    /\ Logged("list", Top.parent_id, Top.download_path)
    /\ UNCHANGED <<space, config, dirs, files, clock, att, driver, page_counter,
                   run, prev, dirs0, files0, sanIn, sanOut>>

\* the for loop running over reversed(list(...)): the last child first
NextChildBackwards ==
    /\ pc = "loop"
    /\ Top.idx <= Len(Top.children)
    /\ LET raw == Top.children[Len(Top.children) + 1 - Top.idx]
           title == Sanitize(raw.title)
       IN  /\ stack' = SetTop([Top EXCEPT
                    !.child = [id |-> raw.id, title |-> title],
                    !.new_download_path = JoinPath(Top.download_path, DirName(title))])
           /\ Logged("visit", raw.id, JoinPath(Top.download_path, DirName(title)))
    /\ pc' = "download_page"
    /\ UNCHANGED <<space, config, dirs, files, clock, att, driver, page_counter,
                   run, prev, dirs0, files0, sanIn, sanOut>>

\* The for loop takes its next child, sanitizes the title and computes
\* new_download_path.
NextChild ==
    /\ pc = "loop"
    /\ Top.idx <= Len(Top.children)
    /\ LET raw == Top.children[Top.idx]
           title == Sanitize(raw.title)
       IN  /\ stack' = SetTop([Top EXCEPT
                    !.child = [id |-> raw.id, title |-> title],
                    !.new_download_path = JoinPath(Top.download_path, DirName(title))])
           /\ Logged("visit", raw.id, JoinPath(Top.download_path, DirName(title)))
    /\ pc' = "download_page"
    /\ UNCHANGED <<space, config, dirs, files, clock, att, driver, page_counter,
                   run, prev, dirs0, files0, sanIn, sanOut>>

\* The for loop is exhausted: _download_page_tree returns, to the loop body of
\* its caller (line 73) or to download_space_pages, which returns.
Return ==
    /\ pc = "loop"
    /\ Top.idx > Len(Top.children)
    /\ IF Len(stack) = 1
       THEN /\ stack' = <<>>
            /\ pc' = "done"
       ELSE /\ stack' = [i \in 1..(Len(stack) - 1) |->
                            IF i = Len(stack) - 1
                            THEN [stack[i] EXCEPT !.idx = @ + 1]
                            ELSE stack[i]]
            /\ pc' = "loop"
    /\ Logged("return", Top.parent_id, Top.download_path)
    /\ UNCHANGED <<space, config, dirs, files, clock, att, driver, page_counter,
                   run, prev, dirs0, files0, sanIn, sanOut>>

\* line 72 recursing with download_path in place of new_download_path
DescendFlat ==
    /\ pc = "children"
    /\ page_counter' = page_counter + 1
    /\ LET children == get_child_pages(Top.child.id)
       IN  IF children # <<>>
           THEN /\ dirs' = dirs \cup {Top.new_download_path}
                /\ stack' = Append(stack, Frame(Top.child.id, Top.download_path))
                /\ pc' = "list"
                /\ Logged("mkdir", Top.child.id, Top.new_download_path)
           ELSE /\ dirs' = dirs
                /\ stack' = SetTop([Top EXCEPT !.idx = @ + 1])
                /\ pc' = "loop"
                /\ Logged("leaf", Top.child.id, Top.new_download_path)
    /\ UNCHANGED <<space, config, files, clock, att, driver, run, prev,
                   dirs0, files0, sanIn, sanOut>>

\* the mkdir of line 71 done for every child, before the test of line 70
DescendMkdirFirst ==
    /\ pc = "children"
    /\ page_counter' = page_counter + 1
    /\ dirs' = dirs \cup {Top.new_download_path}
    /\ LET children == get_child_pages(Top.child.id)
       IN  IF children # <<>>
           THEN /\ stack' = Append(stack, Frame(Top.child.id, Top.new_download_path))
                /\ pc' = "list"
                /\ Logged("mkdir", Top.child.id, Top.new_download_path)
           ELSE /\ stack' = SetTop([Top EXCEPT !.idx = @ + 1])
                /\ pc' = "loop"
                /\ Logged("leaf", Top.child.id, Top.new_download_path)
    /\ UNCHANGED <<space, config, files, clock, att, driver, run, prev,
                   dirs0, files0, sanIn, sanOut>>

\* self.page_counter += 1, the second listing of the child's children, the
\* mkdir of new_download_path and the recursive call.  mkdir(exist_ok=True)
\* raises FileExistsError when the path is a regular file; nothing catches it.
Descend ==
    /\ pc = "children"
    /\ page_counter' = page_counter + 1
    /\ LET children == get_child_pages(Top.child.id)
       IN  IF children # <<>> /\ IsFile(Top.new_download_path)
           THEN /\ dirs' = dirs
                /\ stack' = <<>>
                /\ pc' = "aborted"
                /\ Logged("fatal", Top.child.id, Top.new_download_path)
           ELSE IF children # <<>>
           THEN /\ dirs' = dirs \cup {Top.new_download_path}
                /\ stack' = Append(stack, Frame(Top.child.id, Top.new_download_path))
                /\ pc' = "list"
                /\ Logged("mkdir", Top.child.id, Top.new_download_path)
           ELSE /\ dirs' = dirs
                /\ stack' = SetTop([Top EXCEPT !.idx = @ + 1])
                /\ pc' = "loop"
                /\ Logged("leaf", Top.child.id, Top.new_download_path)
    /\ UNCHANGED <<space, config, files, clock, att, driver, run, prev,
                   dirs0, files0, sanIn, sanOut>>

\* time.sleep(LAZY_TIMEOUT) between _download_page and _download_attachments
LazyPage ==
    /\ pc = "lazy_page"
    /\ pc' = IF config.with_attachments THEN "attachments" ELSE "children"
    /\ Logged("sleep", Top.child.id, Top.download_path)
    /\ UNCHANGED <<space, config, dirs, files, clock, stack, att, driver,
                   page_counter, run, prev, dirs0, files0, sanIn, sanOut>>

-----------------------------------------------------------------------------
(* _download_page and _rename_latest_downloaded_page *)

Put(f, path, content) ==
    [p \in (DOMAIN f) \cup {path} |-> IF p = path THEN content ELSE f[p]]
Remove(f, path) == [p \in (DOMAIN f) \ {path} |-> f[p]]

Content(page_id, n, whole, ctime) ==
    [page |-> page_id, att |-> n, whole |-> whole, ctime |-> ctime]

\* _download_page without the existence check of lines 82-84
DownloadPageAlways ==
    /\ pc = "download_page"
    /\ pc' = "print"
    /\ driver' = "open"
    /\ Logged("session", Top.child.id, Top.download_path)
    /\ UNCHANGED <<space, config, dirs, files, clock, stack, att, page_counter,
                   run, prev, dirs0, files0, sanIn, sanOut>>

\* the check of line 82 made on the page the file was rendered from, not on
\* its name alone
DownloadPageIfMine ==
    /\ pc = "download_page"
    /\ LET pdf == JoinPath(Top.download_path, PdfName(Top.child.title))
       IN  IF IsFile(pdf) /\ files[pdf].page = Top.child.id
           THEN /\ pc' = AfterDownloadPage
                /\ driver' = driver
                /\ Logged("skip_page", Top.child.id, Top.download_path)
           ELSE /\ pc' = "print"
                /\ driver' = "open"
                /\ Logged("session", Top.child.id, Top.download_path)
    /\ UNCHANGED <<space, config, dirs, files, clock, stack, att, page_counter,
                   run, prev, dirs0, files0, sanIn, sanOut>>

\* The existence check of line 82: the page is skipped, or a Chrome session is
\* started with download_path as its save directory and loads the page.
DownloadPage ==
    /\ pc = "download_page"
    /\ IF Exists(JoinPath(Top.download_path, PdfName(Top.child.title)))
       THEN /\ pc' = AfterDownloadPage
            /\ driver' = driver
            /\ Logged("skip_page", Top.child.id, Top.download_path)
       ELSE /\ pc' = "print"
            /\ driver' = "open"
            /\ Logged("session", Top.child.id, Top.download_path)
    /\ UNCHANGED <<space, config, dirs, files, clock, stack, att, page_counter,
                   run, prev, dirs0, files0, sanIn, sanOut>>

\* The names Chrome may save the printed document under: its name for the
\* page, and, when a file of that name is there already, also a numbered one.
PrintTargets(download_path, page_id) ==
    IF IsFile(JoinPath(download_path, BrowserName(page_id, 0)))
    THEN { JoinPath(download_path, BrowserName(page_id, 0)),
           JoinPath(download_path, BrowserName(page_id, clock + 1)) }
    ELSE { JoinPath(download_path, BrowserName(page_id, 0)) }

\* driver.execute_script('window.print();'): Chrome writes one new file into
\* the session's save directory.
WindowPrint ==
    /\ pc = "print"
    /\ \E target \in PrintTargets(Top.download_path, Top.child.id) :
          files' = Put(files, target, Content(Top.child.id, 0, TRUE, clock + 1))
    /\ clock' = clock + 1
    /\ pc' = "quit"
    /\ Logged("print", Top.child.id, Top.download_path)
    /\ UNCHANGED <<space, config, dirs, stack, att, driver, page_counter,
                   run, prev, dirs0, files0, sanIn, sanOut>>

\* window.print() returns and Chrome has written no file.
PrintNothing ==
    /\ pc = "print"
    /\ pc' = "quit"
    /\ Logged("print_nothing", Top.child.id, Top.download_path)
    /\ UNCHANGED <<space, config, dirs, files, clock, stack, att, driver,
                   page_counter, run, prev, dirs0, files0, sanIn, sanOut>>

\* line 91 left out: the session stays open when _download_page goes on
QuitLeft ==
    /\ pc = "quit"
    /\ pc' = "rename"
    /\ Logged("no_quit", Top.child.id, Top.download_path)
    /\ UNCHANGED <<space, config, dirs, files, clock, stack, att, driver,
                   page_counter, run, prev, dirs0, files0, sanIn, sanOut>>

\* driver.quit()
Quit ==
    /\ pc = "quit"
    /\ driver' = "none"
    /\ pc' = "rename"
    /\ Logged("quit", Top.child.id, Top.download_path)
    /\ UNCHANGED <<space, config, dirs, files, clock, stack, att, page_counter,
                   run, prev, dirs0, files0, sanIn, sanOut>>

\* x.stat().st_ctime: for a file the time it was printed at; for a directory
\* the time its entries last changed, which is between the print of the last
\* document renamed into it and the next print
Ctime(f) ==
    IF IsFile(f) THEN files[f].ctime
    ELSE LET times == { files[g].ctime : g \in { h \in DOMAIN files : Parent(h) = f } } \cup {0}
         IN  CHOOSE t \in times : \A u \in times : u <= t

\* min in place of max: the file created first
Oldest(download_path) ==
    CHOOSE f \in GlobPdf(download_path) :
        \A g \in GlobPdf(download_path) : Ctime(f) <= Ctime(g)

\* max(download_path.glob('*.pdf'), key=st_ctime)
Latest(download_path) ==
    CHOOSE f \in GlobPdf(download_path) :
        \A g \in GlobPdf(download_path) : Ctime(g) <= Ctime(f)

\* _rename_latest_downloaded_page: max() of an empty glob raises ValueError,
\* which nothing catches; otherwise the latest file gets the page's name.
Rename ==
    /\ pc = "rename"
    /\ IF GlobPdf(Top.download_path) = {}
       THEN /\ files' = files
            /\ pc' = "aborted"
            /\ stack' = <<>>
            /\ Logged("fatal", Top.child.id, Top.download_path)
       ELSE LET latest_filepath == Latest(Top.download_path)
                renamed_filepath == JoinPath(Parent(latest_filepath), PdfName(Top.child.title))
            IN  /\ files' = Put(Remove(files, latest_filepath), renamed_filepath,
                                files[latest_filepath])
                /\ pc' = AfterDownloadPage
                /\ stack' = stack
                /\ Logged("rename", Top.child.id, renamed_filepath)
    /\ UNCHANGED <<space, config, dirs, clock, att, driver, page_counter,
                   run, prev, dirs0, files0, sanIn, sanOut>>

-----------------------------------------------------------------------------
(* _download_attachments *)

\* line 118 left out: the attachments go into the download_path handed in,
\* the page's own subdirectory
GetAttachmentsInside ==
    /\ pc = "attachments"
    /\ LET attachments == get_attachments(Top.child.id)
           download_path == Top.new_download_path
       IN  IF attachments = <<>>
           THEN /\ pc' = "children"
                /\ att' = NoAtt
                /\ dirs' = dirs
                /\ Logged("no_attachments", Top.child.id, Top.new_download_path)
           ELSE /\ pc' = "att_loop"
                /\ att' = [dir |-> download_path, list |-> attachments, idx |-> 1]
                /\ dirs' = dirs \cup {download_path}
                /\ Logged("mkdir_attachments", Top.child.id, download_path)
    /\ UNCHANGED <<space, config, files, clock, stack, driver, page_counter,
                   run, prev, dirs0, files0, sanIn, sanOut>>

\* lines 118-119 moved before the test of line 114: the directory is made for
\* every page
GetAttachmentsMkdirFirst ==
    /\ pc = "attachments"
    /\ LET attachments == get_attachments(Top.child.id)
           download_path == JoinPath(Parent(Top.new_download_path),
                                     AttachmentsName(Top.child.title))
       IN  /\ dirs' = dirs \cup {download_path}
           /\ IF attachments = <<>>
              THEN /\ pc' = "children"
                   /\ att' = NoAtt
                   /\ Logged("no_attachments", Top.child.id, Top.new_download_path)
              ELSE /\ pc' = "att_loop"
                   /\ att' = [dir |-> download_path, list |-> attachments, idx |-> 1]
                   /\ Logged("mkdir_attachments", Top.child.id, download_path)
    /\ UNCHANGED <<space, config, files, clock, stack, driver, page_counter,
                   run, prev, dirs0, files0, sanIn, sanOut>>

\* The attachment listing; with attachments, the directory next to the page's
\* document is created (line 118: download_path.parent / (title + '.attachments')).
GetAttachments ==
    /\ pc = "attachments"
    /\ LET attachments == get_attachments(Top.child.id)
           download_path == JoinPath(Parent(Top.new_download_path),
                                     AttachmentsName(Top.child.title))
       IN  IF attachments = <<>>
           THEN /\ pc' = "children"
                /\ att' = NoAtt
                /\ dirs' = dirs
                /\ Logged("no_attachments", Top.child.id, Top.new_download_path)
           ELSE /\ pc' = "att_loop"
                /\ att' = [dir |-> download_path, list |-> attachments, idx |-> 1]
                /\ dirs' = dirs \cup {download_path}
                /\ Logged("mkdir_attachments", Top.child.id, download_path)
    /\ UNCHANGED <<space, config, files, clock, stack, driver, page_counter,
                   run, prev, dirs0, files0, sanIn, sanOut>>

AttPath == JoinPath(att.dir, FileName(att.list[att.idx]))

\* The for loop over the attachments is exhausted.
AttachmentsDone ==
    /\ pc = "att_loop"
    /\ att.idx > Len(att.list)
    /\ pc' = "children"
    /\ att' = NoAtt
    /\ Logged("attachments_done", Top.child.id, att.dir)
    /\ UNCHANGED <<space, config, dirs, files, clock, stack, driver, page_counter,
                   run, prev, dirs0, files0, sanIn, sanOut>>

\* the continue of line 125 left out: a skipped attachment reaches the sleep
\* of lines 135-137
SkipAttachmentThrottled ==
    /\ pc = "att_loop"
    /\ att.idx <= Len(att.list)
    /\ IsFile(AttPath)
    /\ pc' = IF config.lazy_mode THEN "lazy_attachment" ELSE "att_loop"
    /\ att' = IF config.lazy_mode THEN att ELSE [att EXCEPT !.idx = @ + 1]
    /\ Logged("skip_attachment", Top.child.id, AttPath)
    /\ UNCHANGED <<space, config, dirs, files, clock, stack, driver,
                   page_counter, run, prev, dirs0, files0, sanIn, sanOut>>

\* os.path.isfile(...) holds: the attachment is skipped (continue).
SkipAttachment ==
    /\ pc = "att_loop"
    /\ att.idx <= Len(att.list)
    /\ IsFile(AttPath)
    /\ att' = [att EXCEPT !.idx = @ + 1]
    /\ Logged("skip_attachment", Top.child.id, AttPath)
    /\ UNCHANGED <<space, config, dirs, files, clock, stack, pc, driver,
                   page_counter, run, prev, dirs0, files0, sanIn, sanOut>>

\* requests.get answers 200 and open(..., "wb") creates the file.
RequestOk ==
    /\ pc = "att_loop"
    /\ att.idx <= Len(att.list)
    /\ ~IsFile(AttPath)
    /\ files' = Put(files, AttPath, Content(Top.child.id, att.idx, FALSE, clock))
    /\ pc' = "att_write"
    /\ Logged("request_ok", Top.child.id, AttPath)
    /\ UNCHANGED <<space, config, dirs, clock, stack, att, driver, page_counter,
                   run, prev, dirs0, files0, sanIn, sanOut>>

\* a failed download ending the loop over the attachments (break)
RequestFailedBreaks ==
    /\ pc = "att_loop"
    /\ att.idx <= Len(att.list)
    /\ ~IsFile(AttPath)
    /\ pc' = "children"
    /\ att' = NoAtt
    /\ Logged("request_failed", Top.child.id, AttPath)
    /\ UNCHANGED <<space, config, dirs, files, clock, stack, driver, page_counter,
                   run, prev, dirs0, files0, sanIn, sanOut>>

\* the status test of line 128 left out: the body of the error response is
\* written to the file
RequestFailedWrites ==
    /\ pc = "att_loop"
    /\ att.idx <= Len(att.list)
    /\ ~IsFile(AttPath)
    /\ files' = Put(files, AttPath, Content(Top.child.id, att.idx, FALSE, clock))
    /\ pc' = IF config.lazy_mode THEN "lazy_attachment" ELSE "att_loop"
    /\ att' = IF config.lazy_mode THEN att ELSE [att EXCEPT !.idx = @ + 1]
    /\ Logged("request_failed", Top.child.id, AttPath)
    /\ UNCHANGED <<space, config, dirs, clock, stack, driver, page_counter,
                   run, prev, dirs0, files0, sanIn, sanOut>>

\* requests.get answers another status: logged, nothing written.
RequestFailed ==
    /\ pc = "att_loop"
    /\ att.idx <= Len(att.list)
    /\ ~IsFile(AttPath)
    /\ pc' = IF config.lazy_mode THEN "lazy_attachment" ELSE "att_loop"
    /\ att' = IF config.lazy_mode THEN att ELSE [att EXCEPT !.idx = @ + 1]
    /\ Logged("request_failed", Top.child.id, AttPath)
    /\ UNCHANGED <<space, config, dirs, files, clock, stack, driver, page_counter,
                   run, prev, dirs0, files0, sanIn, sanOut>>

\* The response body is written and the file closed.
WriteAttachment ==
    /\ pc = "att_write"
    /\ files' = [files EXCEPT ![AttPath].whole = TRUE]
    /\ pc' = IF config.lazy_mode THEN "lazy_attachment" ELSE "att_loop"
    /\ att' = IF config.lazy_mode THEN att ELSE [att EXCEPT !.idx = @ + 1]
    /\ Logged("write", Top.child.id, AttPath)
    /\ UNCHANGED <<space, config, dirs, clock, stack, driver, page_counter,
                   run, prev, dirs0, files0, sanIn, sanOut>>

\* time.sleep(LAZY_TIMEOUT) after an attempted download
LazyAttachment ==
    /\ pc = "lazy_attachment"
    /\ pc' = "att_loop"
    /\ att' = [att EXCEPT !.idx = @ + 1]
    /\ Logged("sleep", Top.child.id, AttPath)
    /\ UNCHANGED <<space, config, dirs, files, clock, stack, driver, page_counter,
                   run, prev, dirs0, files0, sanIn, sanOut>>

-----------------------------------------------------------------------------
(* Failures of the collaborators and of the process *)

\* the exception caught and the request issued again
ApiFailsRetried ==
    /\ pc \in {"get_space", "list", "attachments", "children"}
    /\ Cardinality({ i \in 1..Len(log) : log[i].op = "api_error" }) < 2
    /\ Logged("api_error", IF stack = <<>> THEN HomeId ELSE Top.parent_id, <<>>)
    /\ UNCHANGED <<space, config, dirs, files, clock, stack, att, pc, driver,
                   page_counter, run, prev, dirs0, files0, sanIn, sanOut>>

\* An API request raises (network, authentication): get_space, either
\* get_child_pages, get_attachments_from_content.  Nothing catches it.
ApiFails ==
    /\ pc \in {"get_space", "list", "attachments", "children"}
    /\ Logged("api_error", IF stack = <<>> THEN HomeId ELSE Top.parent_id, <<>>)
    /\ pc' = "aborted"
    /\ stack' = <<>>
    /\ att' = NoAtt
    /\ UNCHANGED <<space, config, dirs, files, clock, driver, page_counter,
                   run, prev, dirs0, files0, sanIn, sanOut>>

\* The process is killed.
Crash ==
    /\ pc \notin {"idle", "done", "aborted", "crashed"}
    /\ pc' = "crashed"
    /\ stack' = <<>>
    /\ att' = NoAtt
    /\ driver' = "none"
    /\ Logged("crash", HomeId, <<>>)
    /\ UNCHANGED <<space, config, dirs, files, clock, page_counter,
                   run, prev, dirs0, files0, sanIn, sanOut>>

-----------------------------------------------------------------------------
(* Specifications *)

Walk ==
    \/ StartRun \/ GetSpace \/ ListChildren \/ NextChild \/ Return \/ Descend
    \/ LazyPage \/ DownloadPage \/ WindowPrint \/ Quit \/ Rename
    \/ GetAttachments \/ AttachmentsDone \/ SkipAttachment \/ RequestOk
    \/ RequestFailed \/ WriteAttachment \/ LazyAttachment

WalkFrom(spaces) ==
    /\ space \in spaces
    /\ config \in Configs
    /\ dirs = {<<>>}
    /\ files = <<>>
    /\ clock = 0
    /\ stack = <<>>
    /\ att = NoAtt
    /\ pc = "idle"
    /\ driver = "none"
    /\ page_counter = 1
    /\ run = 0
    /\ log = <<>>
    /\ prev = NoPrev
    /\ dirs0 = {<<>>}
    /\ files0 = <<>>
    /\ sanIn = <<>>
    /\ sanOut = NoNames

\* The collaborators keep their contracts: every API request is answered and
\* every print writes its file; a download may be answered with any status.
Next == Walk

Spec == Init /\ [][Next]_vars

\* A page may also carry the name of a file: "Z.pdf".
PageKindsPdf ==
    PageKinds \cup { [title |-> <<"Z", ".", "p", "d", "f">>, attachments |-> <<>>] }

SpacesPdf ==
    { [parent |-> par, page |-> kind] :
        par \in { f \in [Pages -> {HomeId} \cup Pages] : \A p \in Pages : f[p] < p },
        kind \in { k \in [Pages -> PageKindsPdf] :
                     \A p, q \in Pages : p # q => k[p].title # k[q].title } }

\* As Spec, over the spaces in which a page may be titled like a document.
SpecPdfTitles == WalkFrom(SpacesPdf) /\ [][Next]_vars

\* As Spec, and an API request may raise.
NextApi == Walk \/ ApiFails

SpecApi == Init /\ [][NextApi]_vars

\* As Spec, and the process may be killed at any point.
NextCrash == Walk \/ Crash

SpecCrash == Init /\ [][NextCrash]_vars

\* As Spec, and a print may write nothing.
NextFault == Walk \/ PrintNothing

SpecFault == Init /\ [][NextFault]_vars

-----------------------------------------------------------------------------
(* The names of one page, for every title over Alphabet *)

RECURSIVE TitlesOfLen(_)
TitlesOfLen(n) ==
    IF n = 0 THEN {<<>>}
    ELSE { Append(t, c) : t \in TitlesOfLen(n - 1), c \in Alphabet }

Titles == UNION { TitlesOfLen(n) : n \in 0..MaxTitleLen }

InitNames ==
    /\ sanIn \in Titles
    /\ sanOut = NoNames
    /\ space = CHOOSE s \in Spaces : TRUE
    /\ config = [with_attachments |-> TRUE, lazy_mode |-> FALSE]
    /\ dirs = {<<>>}
    /\ files = <<>>
    /\ clock = 0
    /\ stack = <<>>
    /\ att = NoAtt
    /\ pc = "idle"
    /\ driver = "none"
    /\ page_counter = 1
    /\ run = 0
    /\ log = <<>>
    /\ prev = NoPrev
    /\ dirs0 = {<<>>}
    /\ files0 = <<>>

\* Lines 59-60, 82 and 118: the title is sanitized and the names of the
\* subdirectory, the document and the attachments directory are built from it.
NamePage ==
    /\ ~sanOut.done
    /\ LET title == Sanitize(sanIn)
       IN  sanOut' = [done |-> TRUE, title |-> title,
                      document |-> PdfName(title),
                      attachments |-> AttachmentsName(title),
                      directory |-> DirName(title)]
    /\ UNCHANGED <<sanIn, walkVars>>

SpecNames == InitNames /\ [][NamePage]_vars

-----------------------------------------------------------------------------
(* The layout the specification describes *)

title_of(p) == Sanitize(space.page[p].title)
HasChildren(p) == \E q \in Pages : space.parent[q] = p

\* <root>/a1/.../ak for a page with ancestor chain home, a1, ..., ak
RECURSIVE BaseDir(_)
BaseDir(p) ==
    IF space.parent[p] = HomeId THEN <<>>
    ELSE Append(BaseDir(space.parent[p]), DirName(title_of(space.parent[p])))

DocPath(p) == Append(BaseDir(p), PdfName(title_of(p)))
SubDir(p) == Append(BaseDir(p), DirName(title_of(p)))
AttDir(p) == Append(BaseDir(p), AttachmentsName(title_of(p)))
AttFile(p, n) == Append(AttDir(p), FileName(space.page[p].attachments[n]))
AttIndexes(p) == 1..Len(space.page[p].attachments)

IsPrefix(d, f) == Len(d) <= Len(f) /\ SubSeq(f, 1, Len(d)) = d

Ops(ops) == { i \in 1..Len(log) : log[i].op \in ops }
Requests == Ops({"request_ok", "request_failed"})

-----------------------------------------------------------------------------
(* Claims *)

SessionPdf(i) == JoinPath(log[i].path, PdfName(title_of(log[i].page)))

\* C1: a run that follows a completed run opens no rendering session for a
\* page whose <sanitized-title>.pdf existed when it started, requests no
\* attachment whose file existed, and leaves every file and directory that
\* existed as it was.
C1_SecondRunIdempotent ==
    prev.outcome = "done" =>
        /\ \A i \in Ops({"session"}) : ~(SessionPdf(i) \in DOMAIN files0 \cup dirs0)
        /\ \A i \in Requests : log[i].path \notin DOMAIN files0
        /\ \A f \in DOMAIN files0 : f \in DOMAIN files /\ files[f] = files0[f]
        /\ dirs0 \subseteq dirs

\* a second run has completed, having skipped a page and an attachment
C1_Witness ==
    /\ pc = "done"
    /\ prev.outcome = "done"
    /\ Ops({"skip_page"}) # {}
    /\ Ops({"skip_attachment"}) # {}

C3_AttachmentPlacement ==
    \A f \in DOMAIN files :
        files[f].att > 0 =>
            /\ f = AttFile(files[f].page, files[f].att)
            /\ Parent(Parent(f)) = Parent(DocPath(files[f].page))
            /\ ~IsPrefix(SubDir(files[f].page), f)

\* an attachment of a page that has a subdirectory of its own is on disk
C3_Witness ==
    \E f \in DOMAIN files :
        /\ files[f].att > 0
        /\ files[f].whole
        /\ SubDir(files[f].page) \in dirs
        /\ BaseDir(files[f].page) # <<>>

AsciiClass == AsciiWord \cup Punct

\* the characters re.sub keeps: those \w matches, and '_', '.', ' ', '-'
KeptClass == AsciiWord \cup UnicodeWord \cup Punct

Replaced(title, kept) ==
    [i \in 1..Len(title) |-> IF title[i] \in kept THEN title[i] ELSE "_"]

NamesFrom(title) ==
    /\ sanOut.document = <<Str(title), ".pdf">>
    /\ sanOut.attachments = <<Str(title), ".attachments">>
    /\ sanOut.directory = <<Str(title), "">>

\* C5 as claimed: the names are built from the title with each character
\* outside [A-Za-z0-9_. -] replaced by '_'.
C5_AsciiOnlyKept ==
    sanOut.done =>
        /\ sanOut.title = Replaced(sanIn, AsciiClass)
        /\ NamesFrom(Replaced(sanIn, AsciiClass))

\* C5: the names of the document, the attachments directory and the
\* subdirectory are built from the title with each character that is neither
\* a word character of any script (letter, digit, '_') nor '.', ' ' or '-'
\* replaced by '_'; letters outside ASCII are kept, a title over
\* [A-Za-z0-9_. -] is unchanged, and the length is that of the title.
C5_Sanitized ==
    sanOut.done =>
        /\ Len(sanOut.title) = Len(sanIn)
        /\ \A i \in 1..Len(sanIn) :
              /\ sanIn[i] \in KeptClass => sanOut.title[i] = sanIn[i]
              /\ sanIn[i] \notin KeptClass => sanOut.title[i] = "_"
        /\ (\A i \in 1..Len(sanIn) : sanIn[i] \in AsciiClass) => sanOut.title = sanIn
        /\ NamesFrom(sanOut.title)

\* a title with a letter outside ASCII and a replaced character has its names
C5_Witness ==
    /\ sanOut.done
    /\ \E i, j \in 1..Len(sanIn) : sanIn[i] \in UnicodeWord /\ sanIn[j] \in Other
    /\ sanOut.title # sanIn

Last == log[Len(log)]
Attempted(p, n) ==
    \E i \in Ops({"request_ok", "request_failed", "skip_attachment"}) :
        log[i].page = p /\ log[i].path = AttFile(p, n)

\* C6: a download answered with a non-200 status does not stop the run: the
\* loop over the attachments goes on, no attachment is requested twice in a
\* run, every attachment answered with 200 is written whole, and at the end
\* of the run every page has been visited and every attachment of every page
\* has been attempted or skipped as present.
C6_FailureIsolated ==
    /\ pc \notin {"aborted", "crashed"}
    /\ (log # <<>> /\ Last.op = "request_failed") =>
           pc \in {"att_loop", "lazy_attachment"} /\ stack # <<>>
    /\ \A i \in Ops({"request_ok"}) :
           i < Len(log) => IsFile(log[i].path) /\ files[log[i].path].whole
    /\ \A i, j \in Requests :
           (log[i].page = log[j].page /\ log[i].path = log[j].path) => i = j
    /\ pc = "done" =>
           \A p \in Pages :
               /\ \E i \in Ops({"visit"}) : log[i].page = p
               /\ config.with_attachments => \A n \in AttIndexes(p) : Attempted(p, n)

\* a run has completed in which a download failed, a later attachment of the
\* same page was written and another page was visited after that
C6_Witness ==
    /\ pc = "done"
    /\ \E i, j, k \in 1..Len(log) :
          /\ i < j /\ j < k
          /\ log[i].op = "request_failed"
          /\ log[j].op = "write" /\ log[j].page = log[i].page
          /\ log[k].op = "visit" /\ log[k].page # log[i].page

\* C7 as claimed: when a run restarted after a kill finishes, with every
\* download answered 200, the root holds the complete document of every page
\* and the complete content of every attachment.
C7_CrashResumable ==
    (pc = "done" /\ prev.outcome = "crashed" /\ Ops({"request_failed"}) = {}) =>
        \A p \in Pages :
            /\ IsFile(DocPath(p)) /\ files[DocPath(p)].whole
            /\ config.with_attachments =>
                   \A n \in AttIndexes(p) :
                       IsFile(AttFile(p, n)) /\ files[AttFile(p, n)].whole

\* C8: a download answered with a non-200 status leaves no file, and a run in
\* which every download is answered 200 requests exactly the attachment files
\* that were missing when it started, each once, and ends with every
\* attachment of every page present.
C8_RerunCompletes ==
    /\ (log # <<>> /\ Last.op = "request_failed") => ~IsFile(Last.path)
    /\ (pc = "done" /\ config.with_attachments /\ Ops({"request_failed"}) = {}) =>
          /\ \A p \in Pages : \A n \in AttIndexes(p) :
                IsFile(AttFile(p, n)) /\ files[AttFile(p, n)].whole
          /\ { log[i].path : i \in Requests } =
                { AttFile(p[1], p[2]) :
                    p \in { q \in Pages \X (1..3) : q[2] \in AttIndexes(q[1]) } }
                \ DOMAIN files0
          /\ \A i, j \in Requests : log[i].path = log[j].path => i = j

\* a run without failed downloads has completed after a run with failed
\* downloads, having downloaded some attachments and skipped others
C8_Witness ==
    /\ pc = "done"
    /\ prev.outcome = "done"
    /\ prev.failed
    /\ Ops({"request_failed"}) = {}
    /\ Ops({"request_ok"}) # {}
    /\ Ops({"skip_attachment"}) # {}

\* C9 as claimed: when the print of export_page(p, D) wrote no file, the
\* rename step ends in a fatal error, whatever D holds.
C9_MissingRenderFatal ==
    \A i \in Ops({"print_nothing"}) :
        i + 2 <= Len(log) => log[i + 2].op = "fatal"

ApiErrors(l) == { i \in 1..Len(l) : l[i].op = "api_error" }

\* C10: when get_space or a get_child_pages raises, the run ends there: the
\* step leaves every file and directory as it was and no session open, the
\* request is not issued again, and nothing happens afterwards but a new
\* start of the program; when get_space raises the root is as it was when
\* the run started and no session was opened.
C10_ApiFailureAborts ==
    [][ /\ (Len(log') > Len(log) /\ log'[Len(log')].op = "api_error") =>
               /\ pc' = "aborted"
               /\ stack' = <<>>
               /\ files' = files /\ dirs' = dirs
               /\ driver' = "none"
               /\ Cardinality(ApiErrors(log')) = 1
        /\ (pc' = "aborted" /\ log = <<>>) =>
               /\ files' = files0 /\ dirs' = dirs0
               /\ clock' = clock
        /\ pc = "aborted" => (pc' = "get_space" /\ run' = run + 1)
      ]_vars

\* a child listing has failed after a document and an attachment were written
C10_Witness ==
    /\ pc = "aborted"
    /\ Last.op = "api_error"
    /\ \E f \in DOMAIN files : files[f].att = 0
    /\ \E f \in DOMAIN files : files[f].att > 0

\* the documents in directory D that carry the name of a page
Documents(D) == { f \in GlobPdf(D) : \E q \in Pages : f = JoinPath(D, PdfName(title_of(q))) }

\* C11: when every print writes one new file into D, a non-skipped
\* export_page(p, D) ends with D/<p>.pdf holding the document rendered from p
\* in that call and with no browser-named file in D, and no step of it
\* renames, replaces or removes the document of another page in D.
C11_RenameBindsPage ==
    [][ /\ (Len(log') > Len(log) /\ log'[Len(log')].op = "rename") =>
               LET p == log'[Len(log')].page
                   D == Parent(log'[Len(log')].path)
               IN  /\ log'[Len(log')].path = JoinPath(D, PdfName(title_of(p)))
                   /\ log'[Len(log')].path \in DOMAIN files'
                   /\ log'[Len(log')].path \notin DOMAIN files
                   /\ files'[log'[Len(log')].path] = Content(p, 0, TRUE, clock)
                   /\ log[Len(log) - 1] = Event("print", p, D)
                   /\ \A f \in DOMAIN files' :
                          (Parent(f) = D /\ f[Len(f)][2] = ".pdf") =>
                              \E q \in Pages : f = JoinPath(D, PdfName(title_of(q)))
        /\ pc \in {"download_page", "print", "quit", "rename"} =>
               \A f \in Documents(Top.download_path) :
                   /\ f \in DOMAIN files'
                   /\ files'[f] = files[f]
      ]_vars

\* a document has been renamed in a directory, one level below the root, that
\* holds the document of another page
C11_Witness ==
    /\ log # <<>>
    /\ Last.op = "rename"
    /\ Len(Last.path) = 2
    /\ Cardinality(GlobPdf(Parent(Last.path))) = 2
    /\ \E f \in GlobPdf(Parent(Last.path)) : files[f].page # Last.page

\* the sessions started and not yet quit among the first n events of the run
OpenSessions(n) ==
    Cardinality({ i \in Ops({"session"}) : i <= n })
        - Cardinality({ i \in Ops({"quit"}) : i <= n })

\* C12: at most one Chrome session is open at any time; the session started
\* for a page is quit before that page's rename step, before its attachment
\* pass and before another page is taken, and a completed run leaves none.
C12_OneSession ==
    /\ OpenSessions(Len(log)) \in {0, 1}
    /\ driver = "open" <=> OpenSessions(Len(log)) = 1
    /\ driver = "open" =>
          /\ pc \in {"print", "quit"}
          /\ \E i \in Ops({"session"}) :
                /\ log[i].page = Top.child.id
                /\ \A j \in (i + 1)..Len(log) : log[j] = Event("print", Top.child.id, log[i].path)
    /\ \A i \in Ops({"session"}) : OpenSessions(i - 1) = 0
    /\ \A i \in Ops({"rename", "fatal", "sleep", "no_attachments", "mkdir_attachments",
                     "request_ok", "request_failed", "skip_attachment", "visit",
                     "list", "mkdir", "leaf", "return"}) : OpenSessions(i) = 0
    /\ pc \in {"idle", "done", "aborted", "get_space"} => driver = "none"

\* a run has completed in which two pages were rendered, each in a session of
\* its own, and attachments were fetched between the two
C12_Witness ==
    /\ pc = "done"
    /\ \E i, j, k \in 1..Len(log) :
          /\ i < j /\ j < k
          /\ log[i].op = "session"
          /\ log[j].op = "request_ok"
          /\ log[k].op = "session"

\* a is a strict ancestor of p in the page tree
RECURSIVE IsAncestor(_, _)
IsAncestor(a, p) ==
    \/ space.parent[p] = a
    \/ space.parent[p] # HomeId /\ IsAncestor(a, space.parent[p])

\* the calls of _download_page and of _download_attachments for page p
Exports(p) == { i \in Ops({"skip_page", "session"}) : log[i].page = p }
AttachmentPasses(p) ==
    { i \in Ops({"no_attachments", "mkdir_attachments"}) : log[i].page = p }

\* every event of S is in the log before event j
AllBefore(S, j) == S # {} /\ \A i \in S : i < j

\* C13: the export of a child precedes its attachment pass, which precedes
\* the export of every page below the child; the children of a listing are
\* taken in listing order and the whole subtree of a child is exported before
\* the next child's export; the directory <base>/<child> exists, created by
\* the step before, when _download_page_tree is entered for it.
C13_DepthFirst ==
    /\ \A p \in Pages :
          /\ Cardinality(Exports(p)) <= 1
          /\ Cardinality(AttachmentPasses(p)) <= 1
          /\ \A i \in AttachmentPasses(p) : config.with_attachments /\ AllBefore(Exports(p), i)
          /\ \A q \in Pages : \A j \in Exports(q) :
                /\ IsAncestor(p, q) =>
                      /\ AllBefore(Exports(p), j)
                      /\ config.with_attachments => AllBefore(AttachmentPasses(p), j)
                /\ (space.parent[p] = space.parent[q] /\ p < q) =>
                      /\ AllBefore(Exports(p), j)
                      /\ \A d \in Pages : IsAncestor(p, d) => AllBefore(Exports(d), j)
    /\ \A i \in Ops({"list"}) :
          log[i].page # HomeId =>
              /\ log[i - 1] = Event("mkdir", log[i].page, log[i].path)
              /\ log[i].path = SubDir(log[i].page)
    /\ \A k \in 1..Len(stack) : stack[k].download_path \in dirs

\* a run with attachments has completed on a tree in which the first child of
\* the home page has a child and a later sibling
C13_Witness ==
    /\ pc = "done"
    /\ config.with_attachments
    /\ \E p, q, d \in Pages :
          /\ space.parent[p] = HomeId /\ space.parent[q] = HomeId /\ p < q
          /\ space.parent[d] = p
          /\ Exports(p) # {} /\ Exports(d) # {} /\ Exports(q) # {}
          /\ SubDir(p) \in dirs

\* p and q are listed under the same parent, p first, with one sanitized title
Collide(p, q) ==
    /\ p < q
    /\ space.parent[p] = space.parent[q]
    /\ title_of(p) = title_of(q)

\* C14: of two siblings with the same sanitized title T the later one is
\* skipped as already exported and never rendered, the T.pdf of the earlier
\* one is never overwritten and is the only document of the two in the
\* parent's directory, and the attachments and the children of both go into
\* the same T.attachments and T/.
C14_SiblingCollision ==
    \A p, q \in Pages :
        Collide(p, q) =>
            /\ \A i \in Exports(q) : log[i].op = "skip_page" /\ IsFile(DocPath(p))
            /\ \A f \in DOMAIN files : ~(files[f].att = 0 /\ files[f].page = q)
            /\ IsFile(DocPath(p)) => files[DocPath(p)].page = p /\ files[DocPath(p)].att = 0
            /\ DocPath(p) \in DOMAIN files0 =>
                   IsFile(DocPath(p)) /\ files[DocPath(p)] = files0[DocPath(p)]
            /\ Cardinality({ i \in Ops({"rename"}) : log[i].path = DocPath(p) }) <= 1
            /\ Exports(q) # {} =>
                   { f \in GlobPdf(BaseDir(p)) : files[f].page \in {p, q} } = {DocPath(p)}
            /\ \A f \in DOMAIN files :
                   (files[f].att > 0 /\ files[f].page \in {p, q}) => Parent(f) = AttDir(p)
            /\ \A i \in Ops({"mkdir_attachments"}) :
                   log[i].page \in {p, q} => log[i].path = AttDir(p)
            /\ \A i \in Ops({"mkdir", "list"}) :
                   log[i].page \in {p, q} => log[i].path = SubDir(p)
            /\ \A d \in Pages :
                   (space.parent[d] \in {p, q} /\ IsFile(DocPath(d))) =>
                       Parent(DocPath(d)) = SubDir(p)

\* a first run with attachments has completed on a tree with two colliding
\* siblings, the later one having a child
C14_Witness ==
    /\ pc = "done"
    /\ prev.outcome = "idle"
    /\ config.with_attachments
    /\ \E p, q, d \in Pages :
          /\ Collide(p, q)
          /\ space.parent[d] = q
          /\ IsFile(DocPath(d))
          /\ \E f \in DOMAIN files : files[f].att > 0 /\ files[f].page = q

\* the directories with the extension .attachments
AttachmentDirs(ds) == { d \in ds : d # <<>> /\ d[Len(d)][2] = ".attachments" }

AttachmentOps ==
    {"no_attachments", "mkdir_attachments", "attachments_done", "skip_attachment",
     "request_ok", "request_failed", "write"}

\* C15: a step adds a directory <sanitized-title>.attachments only as the
\* attachment pass of a page with a non-empty listing, with with_attachments
\* on, and that pass always has the directory afterwards; the pass of a page
\* with an empty listing changes no file and no directory; with
\* with_attachments off no listing is fetched, no download is issued and no
\* such directory exists; a completed run has made the directory for exactly
\* the pages with attachments when with_attachments is on, for none otherwise.
C15_AttachmentsDirWhenNeeded ==
    [][ /\ AttachmentDirs(dirs') # AttachmentDirs(dirs) =>
               /\ config.with_attachments
               /\ pc = "attachments"
               /\ get_attachments(Top.child.id) # <<>>
               /\ dirs' = dirs \cup {AttDir(Top.child.id)}
        /\ pc = "attachments" =>
               IF get_attachments(Top.child.id) = <<>>
               THEN dirs' = dirs /\ files' = files /\ pc' = "children"
               ELSE AttDir(Top.child.id) \in dirs' /\ files' = files
        /\ ~config.with_attachments =>
               /\ pc' \notin {"attachments", "att_loop", "att_write", "lazy_attachment"}
               /\ \A i \in 1..Len(log') : log'[i].op \notin AttachmentOps
               /\ AttachmentDirs(dirs') = {}
               /\ \A f \in DOMAIN files' : files'[f].att = 0
        /\ pc' = "done" =>
               \A p \in Pages :
                   (\E i \in 1..Len(log') : log'[i] = Event("mkdir_attachments", p, AttDir(p)))
                       <=> (config.with_attachments /\ AttIndexes(p) # {})
      ]_vars

\* a run with attachments has completed: a page with attachments has its
\* directory, a page without has none
C15_Witness ==
    /\ pc = "done"
    /\ config.with_attachments
    /\ \E p, q \in Pages :
          /\ AttIndexes(p) # {} /\ AttDir(p) \in dirs
          /\ AttIndexes(q) = {} /\ AttDir(q) \notin dirs
          /\ \E i \in Ops({"no_attachments"}) : log[i].page = q

Sleeps == Ops({"sleep"})

\* event i is the sleep of lines 135-137 after the download logged before it
SleepAfterDownload(i) ==
    /\ i > 1
    /\ log[i - 1].op \in {"write", "request_failed"}
    /\ log[i - 1].page = log[i].page
    /\ log[i - 1].path = log[i].path

\* what holds of the sleeps after attachments, and with lazy_mode off
ThrottledDownloads ==
    /\ ~config.lazy_mode => Sleeps = {}
    /\ config.lazy_mode =>
          /\ \A j \in Ops({"write", "request_failed"}) :
                j < Len(log) => (j + 1 \in Sleeps /\ SleepAfterDownload(j + 1))
          /\ \A j \in Ops({"skip_attachment"}) : j + 1 \notin Sleeps
          /\ \A i \in Sleeps : i + 1 \notin Sleeps

\* C16 as claimed: every sleep of a run follows the rendering of a page,
\* before the attachment pass of that page, or an attempted download.
C16_SleepOnlyAfterRender ==
    /\ ThrottledDownloads
    /\ \A i \in Sleeps :
          \/ SleepAfterDownload(i)
          \/ /\ i > 1
             /\ log[i - 1].op = "rename"
             /\ log[i - 1].page = log[i].page

\* C16: with lazy_mode on, the run sleeps once after every _download_page
\* call, whether the page was rendered or skipped as present and whether or
\* not with_attachments is on, and once after every attempted download,
\* answered 200 or not, and nowhere else; no sleep follows a skipped
\* attachment; with lazy_mode off the run never sleeps.
C16_Throttling ==
    /\ ThrottledDownloads
    /\ config.lazy_mode =>
          /\ \A i \in Sleeps :
                \/ SleepAfterDownload(i)
                \/ /\ i > 1
                   /\ log[i - 1].op \in {"rename", "skip_page"}
                   /\ log[i - 1].page = log[i].page
          /\ \A j \in Ops({"rename", "skip_page"}) :
                j < Len(log) => (j + 1 \in Sleeps /\ log[j + 1].page = log[j].page)

\* a run with lazy_mode has completed that slept after a skipped page and
\* after a failed download, and skipped an attachment
C16_Witness ==
    /\ pc = "done"
    /\ config.lazy_mode
    /\ \E i \in Sleeps : log[i - 1].op = "skip_page"
    /\ \E i \in Sleeps : log[i - 1].op = "request_failed"
    /\ \E i \in Sleeps : log[i - 1].op = "write"
    /\ Ops({"skip_attachment"}) # {}

\* C17 as claimed: with every request answered a run does not end before its
\* walk is over, and when it is over _download_page was called once for every
\* page below the home page and never for the home page, the walk returned
\* from a page without children without entering it, and the counter is 1
\* plus the number of pages visited.
C17_TerminatesCovered ==
    /\ pc # "aborted"
    /\ \A i \in Ops({"skip_page", "session"}) : log[i].page # HomeId
    /\ \A i \in Ops({"leaf"}) :
          /\ ~HasChildren(log[i].page)
          /\ \A j \in Ops({"list"}) : log[j].page # log[i].page
    /\ pc \notin {"idle", "get_space"} =>
          page_counter = 1 + Cardinality(Ops({"leaf", "mkdir"}))
    /\ pc = "done" =>
          /\ \A p \in Pages : Cardinality(Exports(p)) = 1
          /\ page_counter = 1 + Cardinality(Ops({"visit"}))
          /\ page_counter = 1 + MaxPages

====
